---- MODULE Spec2Model ----
(***************************************************************************)
(* A model of temper.py: the USB scanner (USBList), the HID and serial     *)
(* decoders (USBRead), the acquisition loop (Temper.read) and the          *)
(* threaded web service (Temper.webserver / RequestHandler).               *)
(*                                                                         *)
(* Conventions.                                                            *)
(*  - A Python dict is a function whose DOMAIN is the dict's key set.      *)
(*  - Text that comes from a device (firmware ids, device leaf names) is   *)
(*    a sequence of character codes; fixed text of the program is a string.*)
(*  - A float produced by a decoder is held exactly, in units of 1/25600   *)
(*    (25600 = lcm(100, 256)), so n/100.0 is n*256 and n/256.0 is n*100.   *)
(*  - verbose is False: the trace prints of lines 142-143, 166-168 and     *)
(*    195-196 are not modelled.                                            *)
(***************************************************************************)
EXTENDS Integers, Sequences, FiniteSets, TLC

(***************************************************************************)
(* Bounds of the model.                                                    *)
(***************************************************************************)
NumThreads == 2
MaxTime == 120
TickLen == 60

(***************************************************************************)
(* Program constants.                                                      *)
(***************************************************************************)
FirmwareRetries == 10
FrameSize == 8
FirmwareMinLen == 8
ResetInterval == 60
SentinelHi == 78
SentinelLo == 32
UnitsPerDegree == 100 * 256

None == "None"

(***************************************************************************)
(* Dict helpers.                                                           *)
(***************************************************************************)
EmptyDict == [k \in {} |-> 0]

\* {**a, **b}: the keys of b take precedence
Merge(a, b) ==
    [k \in (DOMAIN a) \cup (DOMAIN b) |-> IF k \in DOMAIN b THEN b[k] ELSE a[k]]

\* d[k] = v on a dict
Put(d, k, v) ==
    [x \in (DOMAIN d) \cup {k} |-> IF x = k THEN v ELSE d[x]]

(***************************************************************************)
(* Text helpers (sequences of character codes).                            *)
(***************************************************************************)
Take(s, n) == SubSeq(s, 1, IF n < Len(s) THEN n ELSE Len(s))

StartsWith(s, p) == Len(s) >= Len(p) /\ SubSeq(s, 1, Len(p)) = p

\* the characters str.strip() removes (Python str.isspace on latin-1 text)
IsSpace(c) == c \in {9, 10, 11, 12, 13, 28, 29, 30, 31, 32, 133, 160}

RECURSIVE LStrip(_)
LStrip(s) == IF s # <<>> /\ IsSpace(Head(s)) THEN LStrip(Tail(s)) ELSE s

RECURSIVE RStrip(_)
RStrip(s) ==
    IF s # <<>> /\ IsSpace(s[Len(s)]) THEN RStrip(SubSeq(s, 1, Len(s) - 1)) ELSE s

Strip(s) == RStrip(LStrip(s))

HexDigit(n) == IF n < 10 THEN 48 + n ELSE 87 + n

\* binascii.b2a_hex / binascii.hexlify: two lower-case hex digits per byte
RECURSIVE B2AHex(_)
B2AHex(bs) ==
    IF bs = <<>> THEN <<>>
    ELSE <<HexDigit(Head(bs) \div 16), HexDigit(Head(bs) % 16)>> \o B2AHex(Tail(bs))

\* '%s' of a bytes object: b'...'
BytesRepr(bs) == <<98, 39>> \o bs \o <<39>>

\* firmware signatures of lines 203, 208, 213
TEMPerF1_4 == <<84, 69, 77, 80, 101, 114, 70, 49, 46, 52>>
TEMPerGold_V3 == <<84, 69, 77, 80, 101, 114, 71, 111, 108, 100, 95, 86, 51, 46>>
TEMPerX_V3_1 == <<84, 69, 77, 80, 101, 114, 88, 95, 86, 51, 46, 49>>
TEMPerX_V3_3 == <<84, 69, 77, 80, 101, 114, 88, 95, 86, 51, 46, 51>>

hidraw == <<104, 105, 100, 114, 97, 119>>
tty == <<116, 116, 121>>

(***************************************************************************)
(* USBRead._parse_bytes                                                    *)
(***************************************************************************)
\* a variant that unpacks the two bytes as an unsigned integer ('>H')
UnpackUInt16(bytes, offset) == bytes[offset + 1] * 256 + bytes[offset + 2]

\* struct.unpack_from('>h', bytes, offset)[0]
UnpackInt16(bytes, offset) ==
    LET u == bytes[offset + 1] * 256 + bytes[offset + 2]
    IN  IF u >= 32768 THEN u - 65536 ELSE u

_parse_bytes(name, offset, divisor, bytes, info) ==
    IF offset + 1 > Len(bytes) THEN info                      \* IndexError, line 132
    ELSE IF bytes[offset + 1] = SentinelHi /\ offset + 2 > Len(bytes)
         THEN info                                            \* IndexError, line 132
    ELSE IF bytes[offset + 1] = SentinelHi /\ bytes[offset + 2] = SentinelLo
         THEN info                                            \* line 131
    ELSE IF offset + 2 > Len(bytes) THEN info                 \* struct.error, line 136
    ELSE Put(info, name, UnpackInt16(bytes, offset) * (UnitsPerDegree \div divisor))

(***************************************************************************)
(* USBRead._read_hidraw_firmware                                           *)
(*                                                                         *)
(* A HID device is described by what it sends back: beh.pre attempts of    *)
(* the firmware query are answered by the byte stream beh.partial, every   *)
(* later attempt by beh.full; the data query is answered by beh.data.      *)
(***************************************************************************)
\* the inner loop of lines 152-157: os.read(fd, 8) until select times out
RECURSIVE ReadFrames(_)
ReadFrames(stream) ==
    IF stream = <<>> THEN <<>>
    ELSE Take(stream, FrameSize)
         \o ReadFrames(SubSeq(stream, FrameSize + 1, Len(stream)))

FirmwareResponse(beh, i) == IF i <= beh.pre THEN beh.partial ELSE beh.full

\* a variant that keeps the bytes of the earlier attempts (firmware = b''
\* set once, before the loop)
RECURSIVE FirmwareLoopFrom(_, _, _)
FirmwareLoopFrom(beh, i, acc) ==
    LET firmware == acc \o ReadFrames(FirmwareResponse(beh, i))
    IN  IF Len(firmware) = 0
        THEN [raised |-> "RuntimeError", firmware |-> firmware, writes |-> i]
        ELSE IF Len(firmware) > FirmwareMinLen
        THEN [raised |-> None, firmware |-> firmware, writes |-> i]
        ELSE IF i = FirmwareRetries
        THEN [raised |-> None, firmware |-> firmware, writes |-> i]
        ELSE FirmwareLoopFrom(beh, i + 1, firmware)

FirmwareLoopAccumulating(beh, i) == FirmwareLoopFrom(beh, i, <<>>)

\* attempt i (1-based) of the for loop of line 148
RECURSIVE FirmwareLoop(_, _)
FirmwareLoop(beh, i) ==
    LET firmware == ReadFrames(FirmwareResponse(beh, i))
    IN  IF Len(firmware) = 0
        THEN [raised |-> "RuntimeError", firmware |-> firmware, writes |-> i]
        ELSE IF Len(firmware) > FirmwareMinLen
        THEN [raised |-> None, firmware |-> firmware, writes |-> i]
        ELSE IF i = FirmwareRetries
        THEN [raised |-> None, firmware |-> firmware, writes |-> i]
        ELSE FirmwareLoop(beh, i + 1)

_read_hidraw_firmware(beh) == FirmwareLoop(beh, 1)

(***************************************************************************)
(* USBRead._read_hidraw: the result is [raised, info, writes].             *)
(***************************************************************************)
UnknownFirmwareError(firmware, bytes) ==
    [fmt |-> "Unknown firmware %s: %s", args |-> <<firmware, BytesRepr(B2AHex(bytes))>>]

\* a variant that tells the TEMPerX family by the prefix "TEMPerX_" alone
HidDispatchShortPrefix(info0, bytes) ==
    LET fw == info0["firmware"]
    IN  IF Take(fw, 10) = TEMPerF1_4
        THEN _parse_bytes("internal temperature", 2, 256, bytes,
                          Put(info0, "firmware", Take(fw, 10)))
        ELSE IF Take(fw, 14) = TEMPerGold_V3
        THEN _parse_bytes("internal temperature", 2, 100, bytes,
                          Put(info0, "firmware", Take(fw, 15)))
        ELSE IF Take(fw, 8) = Take(TEMPerX_V3_3, 8)
        THEN _parse_bytes("external humidity", 12, 100, bytes,
             _parse_bytes("external temperature", 10, 100, bytes,
             _parse_bytes("internal humidity", 4, 100, bytes,
             _parse_bytes("internal temperature", 2, 100, bytes,
                          Put(info0, "firmware", Take(fw, 12))))))
        ELSE Put(info0, "error", UnknownFirmwareError(fw, bytes))

\* a variant that divides by 100 in every family
HidDispatchOneDivisor(info0, bytes) ==
    LET fw == info0["firmware"]
    IN  IF Take(fw, 10) = TEMPerF1_4
        THEN _parse_bytes("internal temperature", 2, 100, bytes,
                          Put(info0, "firmware", Take(fw, 10)))
        ELSE IF Take(fw, 14) = TEMPerGold_V3
        THEN _parse_bytes("internal temperature", 2, 100, bytes,
                          Put(info0, "firmware", Take(fw, 15)))
        ELSE IF Take(fw, 12) \in {TEMPerX_V3_1, TEMPerX_V3_3}
        THEN _parse_bytes("external humidity", 12, 100, bytes,
             _parse_bytes("external temperature", 10, 100, bytes,
             _parse_bytes("internal humidity", 4, 100, bytes,
             _parse_bytes("internal temperature", 2, 100, bytes,
                          Put(info0, "firmware", Take(fw, 12))))))
        ELSE Put(info0, "error", UnknownFirmwareError(fw, bytes))

\* the dispatch of lines 203-223
HidDispatch(info0, bytes) ==
    LET fw == info0["firmware"]
    IN  IF Take(fw, 10) = TEMPerF1_4
        THEN _parse_bytes("internal temperature", 2, 256, bytes,
                          Put(info0, "firmware", Take(fw, 10)))
        ELSE IF Take(fw, 14) = TEMPerGold_V3
        THEN _parse_bytes("internal temperature", 2, 100, bytes,
                          Put(info0, "firmware", Take(fw, 15)))
        ELSE IF Take(fw, 12) \in {TEMPerX_V3_1, TEMPerX_V3_3}
        THEN _parse_bytes("external humidity", 12, 100, bytes,
             _parse_bytes("external temperature", 10, 100, bytes,
             _parse_bytes("internal humidity", 4, 100, bytes,
             _parse_bytes("internal temperature", 2, 100, bytes,
                          Put(info0, "firmware", Take(fw, 12))))))
        ELSE Put(info0, "error", UnknownFirmwareError(fw, bytes))

_read_hidraw(beh) ==
    LET f == _read_hidraw_firmware(beh)
        bytes == ReadFrames(beh.data)
        info0 == [k \in {"firmware", "hex_firmware", "hex_data"} |->
                    CASE k = "firmware" -> Strip(f.firmware)
                      [] k = "hex_firmware" -> B2AHex(f.firmware)
                      [] OTHER -> B2AHex(bytes)]
    IN  IF f.raised # None
        THEN [raised |-> f.raised, info |-> EmptyDict, writes |-> f.writes]
        ELSE [raised |-> None, info |-> HidDispatch(info0, bytes), writes |-> f.writes]

(***************************************************************************)
(* USBRead._read_serial.  The serial device is described by the firmware   *)
(* line it sends and by what the two regular expressions of lines 256 and  *)
(* 260 capture from its reply: beh.inner is <<>> (no match) or the two     *)
(* captures, beh.outer is <<>> or the one capture.  A capture is           *)
(* [ok, val]: ok says float() accepts the text, val is its value in        *)
(* hundredths.  float() of a rejected capture raises ValueError.           *)
(***************************************************************************)
Float(cap) == cap.val * (UnitsPerDegree \div 100)

_read_serial(beh) ==
    LET info0 == [k \in {"firmware"} |-> Strip(beh.firmware)]
        info1 == IF beh.inner = <<>> THEN info0
                 ELSE Put(Put(info0, "internal temperature", Float(beh.inner[1])),
                          "internal humidity", Float(beh.inner[2]))
        info2 == IF beh.outer = <<>> \/ ~beh.outer[1].ok THEN info1
                 ELSE Put(info1, "external temperature", Float(beh.outer[1]))
    IN  IF beh.inner # <<>> /\ (~beh.inner[1].ok \/ ~beh.inner[2].ok)
        THEN [raised |-> "ValueError", info |-> EmptyDict, writes |-> 0]
        ELSE [raised |-> None, info |-> info2, writes |-> 0]

(***************************************************************************)
(* USBRead.read.  present says whether /dev/<device> still exists: opening *)
(* a missing hidraw node raises FileNotFoundError (os.open, line 180);     *)
(* opening a missing serial port raises pyserial's SerialException (line   *)
(* 234), which is not a FileNotFoundError.                                 *)
(***************************************************************************)
NoUsableError ==
    [k \in {"error"} |-> [fmt |-> "No usable hid/tty devices available", args |-> <<>>]]

\* the decoder the name selects, lines 273-276: None is neither
Decoder(device) ==
    IF StartsWith(device, hidraw) THEN "hid"
    ELSE IF StartsWith(device, tty) THEN "serial"
    ELSE None

USBRead_read(device, present, beh) ==
    IF Decoder(device) = "hid"
    THEN IF ~present
         THEN [raised |-> "FileNotFoundError", info |-> EmptyDict, writes |-> 0]
         ELSE _read_hidraw(beh)
    ELSE IF Decoder(device) = "serial"
    THEN IF ~present
         THEN [raised |-> "SerialException", info |-> EmptyDict, writes |-> 0]
         ELSE _read_serial(beh)
    ELSE [raised |-> None, info |-> NoUsableError, writes |-> 0]

(***************************************************************************)
(* The sysfs tree.  SysDirs is every directory that can appear under       *)
(* /sys/bus/usb/devices; SysAttr gives the text of its attribute files     *)
(* ("" = missing or unreadable) and the names found in its subtree.        *)
(***************************************************************************)
hidraw0 == hidraw \o <<48>>
hidraw1 == hidraw \o <<49>>
hidraw2 == hidraw \o <<50>>
ttyUSB0 == tty \o <<85, 83, 66, 48>>

SysAttr ==
    [d \in {"1-1", "1-2", "2-1", "1-3", "1-0:1.0"} |->
       CASE d = "1-1" ->
              [idVendor |-> <<52, 49, 51, 100>>, idProduct |-> <<50, 49, 48, 55>>,
               manufacturer |-> "PCsensor", product |-> "TEMPerX",
               busnum |-> <<49>>, devnum |-> <<51>>,
               names |-> {hidraw, hidraw0, hidraw1, <<117, 101, 118, 101, 110, 116>>}]
         [] d = "1-2" ->
              [idVendor |-> <<49, 97, 56, 54>>, idProduct |-> <<53, 53, 50, 51>>,
               manufacturer |-> "", product |-> "USB2.0-Ser!",
               busnum |-> <<49>>, devnum |-> <<50>>,
               names |-> {tty, ttyUSB0}]
         [] d = "2-1" ->
              [idVendor |-> <<48, 99, 52, 53>>, idProduct |-> <<55, 52, 48, 49>>,
               manufacturer |-> "RDing", product |-> "TEMPerV1.4",
               busnum |-> <<50>>, devnum |-> <<49>>,
               names |-> {<<117, 101, 118, 101, 110, 116>>}]
         [] d = "1-3" ->
              [idVendor |-> <<48, 52, 54, 100>>, idProduct |-> <<99, 51, 49, 99>>,
               manufacturer |-> "Logitech", product |-> "USB Keyboard",
               busnum |-> <<49>>, devnum |-> <<52>>,
               names |-> {hidraw, hidraw2}]
         [] OTHER ->
              [idVendor |-> <<>>, idProduct |-> <<>>,
               manufacturer |-> "", product |-> "",
               busnum |-> <<>>, devnum |-> <<>>,
               names |-> {}]]

\* the USB devices that are plugged and unplugged while the program runs,
\* and those that stay on the bus
Pluggable == {"1-1", "1-2"}
AlwaysPlugged == {"2-1", "1-3"}

\* the order in which os.scandir lists the directories
ScanOrder == <<"1-0:1.0", "1-1", "1-2", "2-1", "1-3">>

(***************************************************************************)
(* int(text, 16) and int(text): -1 stands for ValueError.                  *)
(***************************************************************************)
DigitVal(c) ==
    IF c >= 48 /\ c <= 57 THEN c - 48
    ELSE IF c >= 97 /\ c <= 102 THEN c - 87
    ELSE IF c >= 65 /\ c <= 70 THEN c - 55
    ELSE 99

RECURSIVE ParseDigits(_, _, _)
ParseDigits(s, base, acc) ==
    IF s = <<>> THEN acc
    ELSE IF DigitVal(Head(s)) >= base THEN -1
    ELSE ParseDigits(Tail(s), base, acc * base + DigitVal(Head(s)))

ParseInt(s, base) == IF s = <<>> THEN -1 ELSE ParseDigits(s, base, 0)

(***************************************************************************)
(* USBList._find_devices and the sort of line 92                           *)
(***************************************************************************)
IsDigit(c) == c >= 48 /\ c <= 57

\* re.search('tty.*[0-9]', name)
MatchesTty(name) ==
    \E i \in 1..Len(name) :
        /\ i + 2 <= Len(name)
        /\ SubSeq(name, i, i + 2) = tty
        /\ \E j \in (i + 3)..Len(name) : IsDigit(name[j])

\* re.search('hidraw[0-9]', name)
MatchesHidraw(name) ==
    \E i \in 1..Len(name) :
        /\ i + 6 <= Len(name)
        /\ SubSeq(name, i, i + 5) = hidraw
        /\ IsDigit(name[i + 6])

_find_devices(dirname) ==
    {n \in SysAttr[dirname].names : MatchesTty(n) \/ MatchesHidraw(n)}

RECURSIVE LexLess(_, _)
LexLess(a, b) ==
    IF a = <<>> THEN b # <<>>
    ELSE IF b = <<>> THEN FALSE
    ELSE IF Head(a) # Head(b) THEN Head(a) < Head(b)
    ELSE LexLess(Tail(a), Tail(b))

RECURSIVE Sorted(_)
Sorted(S) ==
    IF S = {} THEN <<>>
    ELSE LET m == CHOOSE x \in S : \A y \in S \ {x} : LexLess(x, y)
         IN  <<m>> \o Sorted(S \ {m})

(***************************************************************************)
(* USBList._get_usb_device: the empty dict stands for the None returned    *)
(* when idVendor cannot be read.                                           *)
(***************************************************************************)
_get_usb_device(dirname) ==
    LET a == SysAttr[dirname]
    IN  IF a.idVendor = <<>> THEN EmptyDict
        ELSE [k \in {"vendorid", "productid", "manufacturer", "product",
                     "busnum", "devnum", "devices"} |->
                CASE k = "vendorid" -> ParseInt(a.idVendor, 16)
                  [] k = "productid" -> ParseInt(a.idProduct, 16)
                  [] k = "manufacturer" -> a.manufacturer
                  [] k = "product" -> a.product
                  [] k = "busnum" -> ParseInt(a.busnum, 10)
                  [] k = "devnum" -> ParseInt(a.devnum, 10)
                  [] OTHER -> Sorted(_find_devices(dirname))]

(***************************************************************************)
(* USBList.get_usb_devices over the directories present.  The registry is  *)
(* a sequence of [path, info] in insertion order (a Python dict keeps it). *)
(***************************************************************************)
RECURSIVE ScanFrom(_, _)
ScanFrom(present, i) ==
    IF i > Len(ScanOrder) THEN <<>>
    ELSE IF ScanOrder[i] \notin present \/ DOMAIN _get_usb_device(ScanOrder[i]) = {}
    THEN ScanFrom(present, i + 1)
    ELSE <<[path |-> ScanOrder[i], info |-> _get_usb_device(ScanOrder[i])]>>
         \o ScanFrom(present, i + 1)

get_usb_devices(plugged) == ScanFrom(plugged \cup {"1-0:1.0"}, 1)

(***************************************************************************)
(* Temper._is_known_id.  NoId stands for forced_*_id = None.               *)
(***************************************************************************)
NoId == -1

\* a variant that recognizes every id
AnyIdKnown(fv, fp, vendorid, productid) == TRUE

\* a variant in which the forced pair is added to the built-in pairs
ForcedIdAdded(fv, fp, vendorid, productid) ==
    \/ fv # NoId /\ fp # NoId /\ fv = vendorid /\ fp = productid
    \/ vendorid = 3141 /\ productid = 29697
    \/ vendorid = 16701 /\ productid = 8455
    \/ vendorid = 6790 /\ productid = 21795
    \/ vendorid = 6790 /\ productid = 57381

_is_known_id(fv, fp, vendorid, productid) ==
    IF fv # NoId /\ fp # NoId
    THEN fv = vendorid /\ fp = productid
    ELSE \/ vendorid = 3141 /\ productid = 29697      \* 0x0c45:0x7401
         \/ vendorid = 16701 /\ productid = 8455      \* 0x413d:0x2107
         \/ vendorid = 6790 /\ productid = 21795      \* 0x1a86:0x5523
         \/ vendorid = 6790 /\ productid = 57381      \* 0x1a86:0xe025

(***************************************************************************)
(* The sort of Temper.read, lines 345-347: the registry's indices in       *)
(* ascending busnum*1000 + devnum; sorted() is stable.                     *)
(***************************************************************************)
SortKey(info) == info["busnum"] * 1000 + info["devnum"]

RECURSIVE InsertByKey(_, _, _)
InsertByKey(reg, seq, k) ==
    IF seq = <<>> THEN <<k>>
    ELSE IF SortKey(reg[Head(seq)].info) <= SortKey(reg[k].info)
    THEN <<Head(seq)>> \o InsertByKey(reg, Tail(seq), k)
    ELSE <<k>> \o seq

RECURSIVE SortedUpTo(_, _)
SortedUpTo(reg, n) ==
    IF n = 0 THEN <<>>
    ELSE CHOOSE s \in {InsertByKey(reg, p, n) : p \in {SortedUpTo(reg, n - 1)}} : TRUE

\* a variant that leaves the items in the registry's own order
InsertionOrder(reg) == [k \in 1..Len(reg) |-> k]

SortedItems(reg) == SortedUpTo(reg, Len(reg))

\* what one iteration of the loop of Temper.read does with an entry
NoDevicesError == [fmt |-> "no hid/tty devices available", args |-> <<>>]

\* a variant without the test of line 350
ReadItemNoCheck(known, info) == IF ~known THEN "continue" ELSE "usbread"

ReadItem(known, info) ==
    IF ~known THEN "continue"                          \* lines 348-349
    ELSE IF Len(info["devices"]) = 0 THEN "no devices" \* lines 350-353
    ELSE "usbread"                                     \* lines 354-355

(***************************************************************************)
(* Temper.maybe_reset, line 404                                            *)
(***************************************************************************)
ResetDue(elapsed, last) == elapsed - last > ResetInterval

(***************************************************************************)
(* The web service: configuration, routing and RequestHandler.filter       *)
(***************************************************************************)
ConfigFiles ==
    { [k \in {"hostname"} |-> "localhost"],
      [k \in {"hostname", "port", "certfile", "keyfile"} |->
         CASE k = "hostname" -> "localhost"
           [] k = "port" -> 8443
           [] k = "certfile" -> "cert.pem"
           [] OTHER -> "key.pem"] }

protocol(config) == IF "certfile" \in DOMAIN config THEN "https" ELSE "http"
default_port(config) == IF "certfile" \in DOMAIN config THEN 443 ELSE 80

\* lines 424-425
WithPort(config) ==
    IF "port" \notin DOMAIN config THEN Put(config, "port", default_port(config))
    ELSE config

FilterKeys ==
    {"vendorid", "productid", "manufacturer", "product",
     "internal temperature", "internal humidity",
     "external temperature", "external humidity"}

Url(config, info) ==
    [fmt |-> "%s://%s:%s/%s/%s",
     args |-> <<protocol(config), config["hostname"], config["port"],
                info["vendorid"], info["productid"]>>]

\* a variant that adds the url to the info without dropping any key
FilterKeepsAll(config, info) == Put(info, "url", Url(config, info))

filter(config, info) ==
    [k \in ((DOMAIN info) \cap FilterKeys) \cup {"url"} |->
        IF k = "url" THEN Url(config, info) ELSE info[k]]

RECURSIVE FilterAll(_, _)
FilterAll(config, infos) ==
    IF infos = <<>> THEN <<>>
    ELSE <<filter(config, Head(infos))>> \o FilterAll(config, Tail(infos))

\* path_pattern = '^/([0-9]+)/([0-9]+)$', line 435: <<>> or the two groups
AllDigits(s) == s # <<>> /\ \A k \in 1..Len(s) : IsDigit(s[k])

PathMatch(path) ==
    IF \E k \in 2..Len(path) :
          /\ path[1] = 47 /\ path[k] = 47
          /\ AllDigits(SubSeq(path, 2, k - 1))
          /\ AllDigits(SubSeq(path, k + 1, Len(path)))
    THEN LET k == CHOOSE k \in 2..Len(path) :
                    /\ path[k] = 47
                    /\ AllDigits(SubSeq(path, 2, k - 1))
                    /\ AllDigits(SubSeq(path, k + 1, Len(path)))
         IN  <<SubSeq(path, 2, k - 1), SubSeq(path, k + 1, Len(path))>>
    ELSE <<>>

PathRoot == <<47>>
PathDevices == <<47, 100, 101, 118, 105, 99, 101, 115>>

\* the first registry entry get_device answers for, 0 if there is none
RECURSIVE FirstMatch(_, _, _, _, _, _)
FirstMatch(reg, fv, fp, vendorid, productid, k) ==
    IF k > Len(reg) THEN 0
    ELSE IF /\ _is_known_id(fv, fp, reg[k].info["vendorid"], reg[k].info["productid"])
            /\ vendorid = reg[k].info["vendorid"]
            /\ productid = reg[k].info["productid"]
    THEN k
    ELSE FirstMatch(reg, fv, fp, vendorid, productid, k + 1)

\* a variant that queries the device whatever the method
SkipQueryNever(mode) == FALSE

\* line 507 and line 486: a HEAD request does not query the device
SkipQuery(mode) == mode = "HEAD"

\* a variant whose except clause catches nothing
CatchesNothing(exc) == FALSE

\* the except clauses of lines 491 and 511
Catches(exc) == exc = "FileNotFoundError"

\* a variant that enters without waiting for the lock
LockFreeAlways(holder) == TRUE

\* with self.lock, line 461: the lock can be taken when nobody holds it
LockFree(holder) == holder = 0

ErrorBody(text) == <<[k \in {"error"} |-> [fmt |-> text, args |-> <<>>]]>>

Answer(code, shape, body) == [code |-> code, shape |-> shape, body |-> body, exc |-> None]
Escapes(exc) == [code |-> 0, shape |-> "none", body |-> <<>>, exc |-> exc]
NoAnswer == [code |-> 0, shape |-> "none", body |-> <<>>, exc |-> None]

\* Temper has no method force_reset (the class defines reset and
\* maybe_reset only): the call of line 494 raises AttributeError
force_reset == "AttributeError"

(***************************************************************************)
(* What the devices of the model answer.                                   *)
(***************************************************************************)
FwX33 == TEMPerX_V3_3 \o <<32, 32, 32, 32>>
FwGold == TEMPerGold_V3 \o <<49, 32>>
FwX31 == TEMPerX_V3_1 \o <<32, 32, 32, 32>>
FwF14 == TEMPerF1_4 \o <<32, 32, 32, 32, 32, 32>>
FwOther == <<84, 69, 77, 80, 101, 114, 50, 95, 86, 52, 46, 49, 32, 32, 32, 32>>

\* 25.00 C and 50.00 % inside, no external sensor
DataInner == <<128, 64, 9, 196, 19, 136, 0, 0, 128, 1, 78, 32, 78, 32, 0, 0>>
\* -5.00 C inside, one frame only
DataShort == <<128, 128, 254, 12, 78, 32, 0, 0>>

\* 200.01 C and 0.32 % inside, -2.00 C and 44.00 % outside
DataOuter == <<128, 64, 78, 33, 0, 32, 0, 0, 128, 1, 255, 56, 17, 48, 0, 0>>
\* buffers that end within a field
DataCut3 == <<128, 64, 9>>
DataCutSentinel == <<128, 64, 78>>
DataCut11 == <<128, 64, 9, 196, 19, 136, 0, 0, 128, 1, 78>>
DataCut13 == Take(DataOuter, 13)

HidGood == [pre |-> 0, partial |-> <<>>, full |-> FwX33, data |-> DataInner]
HidSilent == [pre |-> 0, partial |-> <<>>, full |-> <<>>, data |-> <<>>]
HidPartial == [pre |-> FirmwareRetries, partial |-> Take(FwX33, 8), full |-> FwX33,
               data |-> DataInner]

SerialGood ==
    [firmware |-> <<84, 72, 85, 77, 13, 10>>,
     inner |-> <<[ok |-> TRUE, val |-> 2150], [ok |-> TRUE, val |-> 4500]>>,
     outer |-> <<[ok |-> TRUE, val |-> 1900]>>]
SerialBad ==
    [firmware |-> <<84, 72, 85, 77, 13, 10>>,
     inner |-> <<[ok |-> TRUE, val |-> 2150], [ok |-> FALSE, val |-> 0]>>,
     outer |-> <<>>]

Behaviours(device) ==
    IF StartsWith(device, hidraw) THEN {HidGood, HidSilent, HidPartial}
    ELSE {SerialGood, SerialBad}

(***************************************************************************)
(* The command line and the requests of the model.                         *)
(***************************************************************************)
\* --force 046d:c31c, --force 413d:2107, --force 413d, --force 413d:21zz
ForceArgs ==
    { <<>>,
      <<48, 52, 54, 100, 58, 99, 51, 49, 99>>,
      <<52, 49, 51, 100, 58, 50, 49, 48, 55>>,
      <<52, 49, 51, 100>>,
      <<52, 49, 51, 100, 58, 50, 49, 122, 122>> }

\* /16701/8455, /3141/29697, /1133/49948, /0x0c45/0x7401
RequestPaths ==
    { PathRoot, PathDevices,
      <<47, 49, 54, 55, 48, 49, 47, 56, 52, 53, 53>>,
      <<47, 51, 49, 52, 49, 47, 50, 57, 54, 57, 55>>,
      <<47, 49, 49, 51, 51, 47, 52, 57, 57, 52, 56>>,
      <<47, 48, 120, 48, 99, 52, 53, 47, 48, 120, 55, 52, 48, 49>> }

Methods == {"GET", "HEAD"}

\* args.force.split(':')
RECURSIVE Split(_, _)
Split(s, sep) ==
    IF \E k \in 1..Len(s) : s[k] = sep
    THEN LET k == CHOOSE k \in 1..Len(s) :
                    s[k] = sep /\ \A j \in 1..(k - 1) : s[j] # sep
         IN  <<SubSeq(s, 1, k - 1)>> \o Split(SubSeq(s, k + 1, Len(s)), sep)
    ELSE <<s>>

(***************************************************************************)
(* State.  Caller 0 is the main thread, callers 1..NumThreads are the      *)
(* request threads of ThreadingHTTPServer.                                 *)
(***************************************************************************)
VARIABLES
    args,               \* the parsed command line: [server, force]
    forced_vendor_id,   \* Temper.forced_vendor_id
    forced_product_id,  \* Temper.forced_product_id
    server_config,      \* the service configuration
    plugged,            \* the USB devices on the bus (the environment)
    usb_devices,        \* Temper.usb_devices, the registry
    last_reset,         \* Temper.last_reset
    now,                \* os.times().elapsed
    lock,               \* Temper.lock: its holder, 0 when free
    pc,                 \* where each caller is
    req,                \* the request a thread handles: [mode, path]
    idx,                \* Temper.read: position in the sorted items
    results,            \* Temper.read: results; get_device: the dict given to
                        \* rqh.filter (line 510)
    cur,                \* the registry entry USBRead is reading
    opened,             \* the USBRead.read call the caller made last: the
                        \* interface, the decoder and the dict it returned
    fnf,                \* print_exc ran for a FileNotFoundError
    age,                \* the registry's age when the handler found it, and
                        \* the age of the registry the answer comes from
    resp,               \* the outcome of the request
    hidIn,              \* decoder check: the device behaviour
    hidOut              \* decoder check: the result of _read_hidraw

vars == <<args, forced_vendor_id, forced_product_id, server_config, plugged,
          usb_devices, last_reset, now, lock, pc, req, idx, results, cur,
          opened, fnf, age, resp, hidIn, hidOut>>

Threads == 1..NumThreads
Callers == 0..NumThreads
NoRequest == [mode |-> None, path |-> <<>>]
NoAge == [found |-> 0, used |-> 0]
NoRead == [device |-> <<>>, decoder |-> None, out |-> EmptyDict]

envVars == <<plugged, now>>
cfgVars == <<args, forced_vendor_id, forced_product_id, server_config>>
hidVars == <<hidIn, hidOut>>
loopVars == <<idx, results, cur, opened>>

IsKnown(info) ==
    _is_known_id(forced_vendor_id, forced_product_id, info["vendorid"], info["productid"])

Pending == [raised |-> "pending", info |-> EmptyDict, writes |-> 0]

ProgramInit ==
    /\ args \in [server : {TRUE}, force : {<<>>}]
                \cup [server : {FALSE}, force : ForceArgs]
    /\ forced_vendor_id = NoId
    /\ forced_product_id = NoId
    /\ server_config \in (IF args.server THEN ConfigFiles ELSE {EmptyDict})
    /\ plugged \in {AlwaysPlugged \cup S : S \in SUBSET Pluggable}
    /\ usb_devices = get_usb_devices(plugged)       \* Temper.__init__, line 287
    /\ last_reset = 0
    /\ now = 0
    /\ lock = 0
    /\ pc = [c \in Callers |-> IF c = 0 THEN "main" ELSE "idle"]
    /\ req = [c \in Callers |-> NoRequest]
    /\ idx = [c \in Callers |-> 0]
    /\ results = [c \in Callers |-> <<>>]
    /\ cur = [c \in Callers |-> 0]
    /\ opened = [c \in Callers |-> NoRead]
    /\ fnf = [c \in Callers |-> FALSE]
    /\ age = [c \in Callers |-> NoAge]
    /\ resp = [c \in Callers |-> NoAnswer]

Init ==
    /\ ProgramInit
    /\ hidIn = HidGood
    /\ hidOut = Pending

(***************************************************************************)
(* The environment: time passes, devices are plugged and unplugged.        *)
(***************************************************************************)
Tick ==
    /\ pc[0] = "serving"
    /\ now + TickLen <= MaxTime
    /\ now' = now + TickLen
    /\ UNCHANGED <<cfgVars, plugged, usb_devices, last_reset, lock, pc, req,
                   loopVars, fnf, age, resp, hidVars>>

Plug(d) ==
    /\ pc[0] # "main"
    /\ d \notin plugged
    /\ plugged' = plugged \cup {d}
    /\ UNCHANGED <<cfgVars, now, usb_devices, last_reset, lock, pc, req,
                   loopVars, fnf, age, resp, hidVars>>

Unplug(d) ==
    /\ pc[0] # "main"
    /\ d \in plugged
    /\ plugged' = plugged \ {d}
    /\ UNCHANGED <<cfgVars, now, usb_devices, last_reset, lock, pc, req,
                   loopVars, fnf, age, resp, hidVars>>

(***************************************************************************)
(* Temper.main                                                             *)
(***************************************************************************)
\* lines 578-580 and Temper.webserver up to serve_forever
MainServer ==
    /\ pc[0] = "main"
    /\ args.server
    /\ server_config' = WithPort(server_config)
    /\ lock' = 0
    /\ last_reset' = now
    /\ pc' = [pc EXCEPT ![0] = "serving"]
    /\ UNCHANGED <<args, forced_vendor_id, forced_product_id, envVars,
                   usb_devices, req, loopVars, fnf, age, resp, hidVars>>

\* lines 586-601 up to the call of self.read
MainCli ==
    /\ pc[0] = "main"
    /\ ~args.server
    /\ LET ids == Split(args.force, 58)
           bad == \/ Len(ids) # 2
                  \/ ParseInt(ids[1], 16) = -1
                  \/ ParseInt(ids[2], 16) = -1
       IN  IF args.force # <<>> /\ bad
           THEN /\ resp' = [resp EXCEPT ![0] = Answer(1, "none", <<>>)]
                /\ pc' = [pc EXCEPT ![0] = "done"]
                /\ UNCHANGED <<forced_vendor_id, forced_product_id, idx>>
           ELSE /\ forced_vendor_id' =
                      IF args.force # <<>> THEN ParseInt(ids[1], 16) ELSE NoId
                /\ forced_product_id' =
                      IF args.force # <<>> THEN ParseInt(ids[2], 16) ELSE NoId
                /\ idx' = [idx EXCEPT ![0] = 1]
                /\ pc' = [pc EXCEPT ![0] = "read"]
                /\ UNCHANGED resp
    /\ UNCHANGED <<args, server_config, envVars, usb_devices, last_reset, lock,
                   req, results, cur, opened, fnf, age, hidVars>>

(***************************************************************************)
(* Temper.reset / Temper.maybe_reset as they change the registry           *)
(***************************************************************************)
\* a variant whose refresh updates the old registry with the scan
\* (usb_devices.update(...)) and so keeps the entries the scan did not find
RegistryMergedOnReset ==
    IF ResetDue(now, last_reset)
    THEN LET scan == get_usb_devices(plugged)
             found == {scan[k].path : k \in 1..Len(scan)}
             Kept(e) == e.path \notin found
         IN  SelectSeq(usb_devices, Kept) \o scan
    ELSE usb_devices

RegistryAfterMaybeReset ==
    IF ResetDue(now, last_reset) THEN get_usb_devices(plugged) ELSE usb_devices

LastResetAfterMaybeReset ==
    IF ResetDue(now, last_reset) THEN now ELSE last_reset

\* the infos of the recognized entries, in the registry's own order
RECURSIVE KnownInfos(_, _)
KnownInfos(reg, k) ==
    IF k > Len(reg) THEN <<>>
    ELSE IF IsKnown(reg[k].info) THEN <<reg[k].info>> \o KnownInfos(reg, k + 1)
    ELSE KnownInfos(reg, k + 1)

(***************************************************************************)
(* A request thread: do_GET / do_HEAD call get_path (lines 442-469).       *)
(***************************************************************************)
Request(t, mode, path) ==
    /\ pc[0] = "serving"
    /\ pc[t] = "idle"
    /\ \A u \in Threads : u < t => pc[u] # "idle"   \* threads are interchangeable
    /\ req' = [req EXCEPT ![t] = [mode |-> mode, path |-> path]]
    /\ pc' = [pc EXCEPT ![t] = "wait"]
    /\ UNCHANGED <<cfgVars, envVars, usb_devices, last_reset, lock, loopVars,
                   fnf, age, resp, hidVars>>

\* with self.lock, line 461: a waiting thread enters when the lock is free
Enter(t) == pc[t] = "wait" /\ LockFree(lock)

\* a variant whose with block keeps the lock when it is left
ReleaseNever(t) == t

\* leaving the with block: the lock is released
Release(t) == 0

\* lines 462-469 when no route matches
Unrecognized(t) ==
    /\ Enter(t)
    /\ PathMatch(req[t].path) = <<>>
    /\ req[t].path \notin {PathDevices, PathRoot}
    /\ lock' = Release(t)
    /\ resp' = [resp EXCEPT ![t] = Answer(404, "dict", ErrorBody("unrecognized path"))]
    /\ pc' = [pc EXCEPT ![t] = "done"]
    /\ UNCHANGED <<cfgVars, envVars, usb_devices, last_reset, req, loopVars,
                   fnf, age, hidVars>>

\* RequestHandler.get_devices, lines 471-481
GetDevices(t) ==
    /\ Enter(t)
    /\ PathMatch(req[t].path) = <<>>
    /\ req[t].path = PathDevices
    /\ usb_devices' = RegistryAfterMaybeReset
    /\ last_reset' = LastResetAfterMaybeReset
    /\ age' = [age EXCEPT ![t] = [found |-> now - last_reset, used |-> now - last_reset']]
    /\ resp' = [resp EXCEPT ![t] =
                  Answer(200, "list",
                         FilterAll(server_config, KnownInfos(usb_devices', 1)))]
    /\ lock' = Release(t)
    /\ pc' = [pc EXCEPT ![t] = "done"]
    /\ UNCHANGED <<cfgVars, envVars, req, loopVars, fnf, hidVars>>

\* RequestHandler.get_all, lines 483-490, up to the call of self.read
GetAll(t) ==
    /\ Enter(t)
    /\ PathMatch(req[t].path) = <<>>
    /\ req[t].path = PathRoot
    /\ usb_devices' = RegistryAfterMaybeReset
    /\ last_reset' = LastResetAfterMaybeReset
    /\ age' = [age EXCEPT ![t] = [found |-> now - last_reset, used |-> now - last_reset']]
    /\ IF SkipQuery(req[t].mode)
       THEN /\ resp' = [resp EXCEPT ![t] = Answer(200, "list", <<>>)]
            /\ lock' = Release(t)
            /\ pc' = [pc EXCEPT ![t] = "done"]
            /\ UNCHANGED <<idx, results>>
       ELSE /\ idx' = [idx EXCEPT ![t] = 1]
            /\ results' = [results EXCEPT ![t] = <<>>]
            /\ pc' = [pc EXCEPT ![t] = "read"]
            /\ lock' = t
            /\ UNCHANGED resp
    /\ UNCHANGED <<cfgVars, envVars, req, cur, opened, fnf, hidVars>>

\* RequestHandler.get_device, lines 498-514, up to the call of usbread.read
GetDevice(t) ==
    /\ Enter(t)
    /\ PathMatch(req[t].path) # <<>>
    /\ \E m \in {PathMatch(req[t].path)} :
       \E vendorid \in {ParseInt(m[1], 10)}, productid \in {ParseInt(m[2], 10)} :
       \E k \in {FirstMatch(usb_devices, forced_vendor_id, forced_product_id,
                            vendorid, productid, 1)} :
           /\ age' = [age EXCEPT ![t] = [found |-> now - last_reset, used |-> now - last_reset]]
           /\ IF k # 0 /\ SkipQuery(req[t].mode)
              THEN /\ resp' = [resp EXCEPT ![t] = Answer(200, "dict", <<EmptyDict>>)]
                   /\ lock' = Release(t)
                   /\ pc' = [pc EXCEPT ![t] = "done"]
                   /\ UNCHANGED <<usb_devices, last_reset, cur>>
              ELSE IF k # 0 /\ Len(usb_devices[k].info["devices"]) = 0
              THEN /\ resp' = [resp EXCEPT ![t] = Escapes("IndexError")]
                   /\ lock' = Release(t)
                   /\ pc' = [pc EXCEPT ![t] = "done"]
                   /\ UNCHANGED <<usb_devices, last_reset, cur>>
              ELSE IF k # 0
              THEN /\ cur' = [cur EXCEPT ![t] = k]
                   /\ pc' = [pc EXCEPT ![t] = "usbread"]
                   /\ lock' = t
                   /\ UNCHANGED <<usb_devices, last_reset, resp>>
              ELSE /\ usb_devices' = RegistryAfterMaybeReset
                   /\ last_reset' = LastResetAfterMaybeReset
                   /\ resp' = [resp EXCEPT ![t] =
                                 Answer(404, "dict", ErrorBody("no such device"))]
                   /\ lock' = Release(t)
                   /\ pc' = [pc EXCEPT ![t] = "done"]
                   /\ UNCHANGED cur
    /\ UNCHANGED <<cfgVars, envVars, req, idx, results, opened, fnf, hidVars>>

\* the response is sent (or the exception is logged) and the thread ends
Finish(t) ==
    /\ pc[t] = "done"
    /\ pc' = [pc EXCEPT ![t] = "idle"]
    /\ req' = [req EXCEPT ![t] = NoRequest]
    /\ resp' = [resp EXCEPT ![t] = NoAnswer]
    /\ idx' = [idx EXCEPT ![t] = 0]
    /\ results' = [results EXCEPT ![t] = <<>>]
    /\ cur' = [cur EXCEPT ![t] = 0]
    /\ opened' = [opened EXCEPT ![t] = NoRead]
    /\ fnf' = [fnf EXCEPT ![t] = FALSE]
    /\ age' = [age EXCEPT ![t] = NoAge]
    /\ UNCHANGED <<cfgVars, envVars, usb_devices, last_reset, lock, hidVars>>

(***************************************************************************)
(* Temper.read, lines 344-356, one loop iteration per step.  The sorted    *)
(* items are the registry's own dicts; the registry is not replaced while  *)
(* the caller is in the loop.                                              *)
(***************************************************************************)
InGetDevice(c) == c # 0 /\ PathMatch(req[c].path) # <<>>

\* a variant that takes the first candidate interface
SelectFirstInterface(info) == info["devices"][1]

\* info['devices'][-1], lines 354 and 509
SelectInterface(info) == info["devices"][Len(info["devices"])]

ReadNext(c) ==
    /\ pc[c] = "read"
    /\ idx[c] <= Len(usb_devices)
    /\ LET k == SortedItems(usb_devices)[idx[c]]
           info == usb_devices[k].info
           what == ReadItem(IsKnown(info), info)
       IN  /\ what = "continue" =>
                 /\ idx' = [idx EXCEPT ![c] = idx[c] + 1]
                 /\ UNCHANGED <<usb_devices, results, cur, pc>>
           /\ what = "no devices" =>
                 /\ usb_devices' = [usb_devices EXCEPT ![k].info =
                                       Put(info, "error", NoDevicesError)]
                 /\ results' = [results EXCEPT ![c] =
                                   Append(results[c], usb_devices'[k].info)]
                 /\ idx' = [idx EXCEPT ![c] = idx[c] + 1]
                 /\ UNCHANGED <<cur, pc>>
           /\ what = "usbread" =>
                 /\ cur' = [cur EXCEPT ![c] = k]
                 /\ pc' = [pc EXCEPT ![c] = "usbread"]
                 /\ UNCHANGED <<usb_devices, results, idx>>
    /\ UNCHANGED <<cfgVars, envVars, last_reset, lock, req, opened, fnf, age, resp,
                   hidVars>>

\* line 356, and what the caller does with the list: main prints it
\* (lines 601-603), get_all filters it and answers 200 (lines 490, 496)
ReadReturn(c) ==
    /\ pc[c] = "read"
    /\ idx[c] > Len(usb_devices)
    /\ resp' = [resp EXCEPT ![c] =
                  IF c = 0 THEN Answer(0, "list", results[c])
                  ELSE Answer(200, "list", FilterAll(server_config, results[c]))]
    /\ lock' = IF c = 0 THEN lock ELSE Release(c)
    /\ pc' = [pc EXCEPT ![c] = "done"]
    /\ UNCHANGED <<cfgVars, envVars, usb_devices, last_reset, req, loopVars,
                   fnf, age, hidVars>>

(***************************************************************************)
(* USBRead(info['devices'][-1]).read() and what its caller does with the   *)
(* outcome: Temper.read line 355 within main or get_all (lines 489-495),   *)
(* or get_device lines 509-514.                                            *)
(***************************************************************************)
UsbRead(c) ==
    /\ pc[c] = "usbread"
    /\ LET info == usb_devices[cur[c]].info
           device == SelectInterface(info)
           present == usb_devices[cur[c]].path \in plugged
       IN  \E beh \in Behaviours(device) :
             LET o == USBRead_read(device, present, beh)
                 merged == Merge(info, o.info)
             IN  /\ opened' = [opened EXCEPT ![c] =
                      [device |-> device, decoder |-> Decoder(device), out |-> o.info]]
                 /\ IF o.raised = None /\ InGetDevice(c)
                    THEN /\ resp' = [resp EXCEPT ![c] =
                                       Answer(200, "dict", <<filter(server_config, merged)>>)]
                         /\ results' = [results EXCEPT ![c] = <<merged>>]
                         /\ lock' = Release(c)
                         /\ pc' = [pc EXCEPT ![c] = "done"]
                         /\ UNCHANGED <<usb_devices, last_reset, idx, fnf>>
                    ELSE IF o.raised = None
                    THEN /\ results' = [results EXCEPT ![c] = Append(results[c], merged)]
                         /\ idx' = [idx EXCEPT ![c] = idx[c] + 1]
                         /\ pc' = [pc EXCEPT ![c] = "read"]
                         /\ UNCHANGED <<usb_devices, last_reset, lock, resp, fnf>>
                    ELSE IF Catches(o.raised) /\ InGetDevice(c)
                    THEN /\ fnf' = [fnf EXCEPT ![c] = TRUE]
                         /\ usb_devices' = RegistryAfterMaybeReset
                         /\ last_reset' = LastResetAfterMaybeReset
                         /\ resp' = [resp EXCEPT ![c] =
                                       Answer(404, "dict", ErrorBody("no such device"))]
                         /\ lock' = Release(c)
                         /\ pc' = [pc EXCEPT ![c] = "done"]
                         /\ UNCHANGED <<idx, results>>
                    ELSE IF Catches(o.raised) /\ c # 0
                    THEN /\ fnf' = [fnf EXCEPT ![c] = TRUE]
                         /\ resp' = [resp EXCEPT ![c] = Escapes(force_reset)]
                         /\ lock' = Release(c)
                         /\ pc' = [pc EXCEPT ![c] = "done"]
                         /\ UNCHANGED <<usb_devices, last_reset, idx, results>>
                    ELSE /\ resp' = [resp EXCEPT ![c] = Escapes(o.raised)]
                         /\ lock' = IF c = 0 THEN lock ELSE Release(c)
                         /\ pc' = [pc EXCEPT ![c] = "done"]
                         /\ UNCHANGED <<usb_devices, last_reset, idx, results, fnf>>
    /\ UNCHANGED <<cfgVars, envVars, req, cur, age, hidVars>>

(***************************************************************************)
(* The program.  Spec: the command-line run, and the service with clients  *)
(* that send one request at a time, every kind of request.  SpecConc: the  *)
(* service with concurrent clients.                                        *)
(***************************************************************************)
Environment ==
    \/ Tick
    \/ \E d \in Pluggable : Plug(d)
    \/ \E d \in Pluggable : Unplug(d)

Handle ==
    \/ \E t \in Threads : GetDevices(t)
    \/ \E t \in Threads : GetAll(t)
    \/ \E t \in Threads : GetDevice(t)
    \/ \E c \in Callers : ReadNext(c)
    \/ \E c \in Callers : ReadReturn(c)
    \/ \E c \in Callers : UsbRead(c)
    \/ \E t \in Threads : Finish(t)

RequestAlone ==
    /\ \A u \in Threads : pc[u] = "idle"
    /\ \E t \in Threads, mode \in Methods, path \in RequestPaths : Request(t, mode, path)

Next ==
    \/ Environment
    \/ MainServer
    \/ MainCli
    \/ RequestAlone
    \/ \E t \in Threads : Unrecognized(t)
    \/ Handle

Spec == Init /\ [][Next]_vars

\* GET /, GET /devices, GET /16701/8455
ConcRequests ==
    { [mode |-> "GET", path |-> PathRoot],
      [mode |-> "GET", path |-> PathDevices],
      [mode |-> "GET", path |-> <<47, 49, 54, 55, 48, 49, 47, 56, 52, 53, 53>>] }

RequestConc ==
    \E t \in Threads, r \in ConcRequests : Request(t, r.mode, r.path)

\* every device is on the bus when the service starts; the HID sensor is
\* the one that comes and goes
InitConc ==
    /\ Init
    /\ args.server
    /\ "port" \notin DOMAIN server_config
    /\ plugged = AlwaysPlugged \cup Pluggable

EnvironmentConc ==
    \/ Tick
    \/ Plug("1-1")
    \/ Unplug("1-1")

NextConc ==
    \/ EnvironmentConc
    \/ MainServer
    \/ RequestConc
    \/ Handle

SpecConc == InitConc /\ [][NextConc]_vars

(***************************************************************************)
(* SpecLive: the service with concurrent clients and a sensor that is      *)
(* unplugged while it runs, under the scheduling the program relies on: a  *)
(* thread inside Temper.read keeps running (every device read ends), and a *)
(* thread blocked at the with statement of line 461 gets the lock if the   *)
(* lock is free again and again.                                           *)
(***************************************************************************)
NextLive ==
    \/ Unplug("1-1")
    \/ MainServer
    \/ RequestConc
    \/ Handle

Scheduling ==
    \A t \in Threads :
       /\ WF_vars(ReadNext(t) \/ UsbRead(t) \/ ReadReturn(t))
       /\ SF_vars(GetDevices(t) \/ GetAll(t) \/ GetDevice(t))

SpecLive == InitConc /\ [][NextLive]_vars /\ Scheduling

(***************************************************************************)
(* SpecHid: the HID decoder applied to every device behaviour of           *)
(* HidInputs.                                                              *)
(***************************************************************************)
MaxPre == 11

HidInputs ==
    [pre : 0..MaxPre,
     partial : {<<>>, Take(FwX33, 8), Take(FwX33, 9), Take(FwF14, 3), <<32, 32>>},
     full : {<<>>, FwX33, FwX31, FwGold, FwF14, FwOther, Take(FwGold, 8)},
     data : {<<>>, DataInner, DataShort, DataOuter, DataCut3, DataCutSentinel,
             DataCut11, DataCut13}]

InitHid ==
    /\ ProgramInit
    /\ ~args.server
    /\ args.force = <<>>
    /\ plugged = AlwaysPlugged
    /\ hidIn \in HidInputs
    /\ hidOut = Pending

HidRead ==
    /\ hidOut = Pending
    /\ hidOut' = _read_hidraw(hidIn)
    /\ UNCHANGED <<cfgVars, envVars, usb_devices, last_reset, lock, pc, req,
                   loopVars, fnf, age, resp, hidIn>>

NextHid == HidRead

SpecHid == InitHid /\ [][NextHid]_vars

(***************************************************************************)
(* Properties.                                                             *)
(***************************************************************************)
SensorKeys ==
    {"internal temperature", "internal humidity",
     "external temperature", "external humidity"}

\* the known-id set of the specification: the forced pair alone when one
\* is set, the four built-in pairs otherwise
BuiltinIds == {<<3141, 29697>>, <<16701, 8455>>, <<6790, 21795>>, <<6790, 57381>>}

InKnownIdSet(info) ==
    IF forced_vendor_id # NoId /\ forced_product_id # NoId
    THEN <<info["vendorid"], info["productid"]>> = <<forced_vendor_id, forced_product_id>>
    ELSE <<info["vendorid"], info["productid"]>> \in BuiltinIds

InDeviceIO(c) == pc[c] \in {"read", "usbread"}

\* the caller runs, or has run, Temper.read
InAcquireAll(c) == idx[c] >= 1

NoSuchDevice == Answer(404, "dict", ErrorBody("no such device"))

\* C1: the device-read intervals of two different requests never overlap:
\* at most one request thread is inside Temper.read / USBRead.read.
C1_NoOverlappingDeviceIO ==
    \A t, u \in Threads : t # u => ~(InDeviceIO(t) /\ InDeviceIO(u))

\* a thread reads a device while another request, which will read too, waits
C1_Witness ==
    \E t, u \in Threads :
        /\ t # u
        /\ pc[t] = "usbread"
        /\ pc[u] = "wait"
        /\ req[u].mode = "GET"
        /\ req[u].path # PathDevices

\* C2: on each of the three endpoints the answer comes from a registry
\* at most 60 seconds old at the time the request is handled.
C2_AnswerFromFreshRegistry ==
    \A t \in Threads :
        (/\ pc[t] = "done"
         /\ resp[t].exc = None
         /\ (PathMatch(req[t].path) # <<>> \/ req[t].path \in {PathRoot, PathDevices}))
        => age[t].used <= ResetInterval

\* C3: when the acquisition of GET / hits a file-not-found error, the
\* request ends with status 200 carrying the retried acquisition's results.
C3_RetryAnswers200 ==
    \A t \in Threads :
        (pc[t] = "done" /\ req[t].path = PathRoot /\ fnf[t])
        => resp[t].exc = None /\ resp[t].code = 200 /\ resp[t].shape = "list"

\* C4: acquireAll always ends with one result per recognized registry
\* device; a failing device read is recorded in that device's result and
\* does not end the loop.
C4_OneResultPerRecognizedDevice ==
    \A c \in Callers :
        (pc[c] = "done" /\ InAcquireAll(c))
        => /\ resp[c].exc = None
           /\ Len(results[c]) = Len(KnownInfos(usb_devices, 1))

\* the registry device USBRead is reading has vanished from the bus
Vanished(c) ==
    /\ pc[c] = "usbread"
    /\ usb_devices[cur[c]].path \notin plugged
    /\ StartsWith(usb_devices[cur[c]].info["devices"]
                    [Len(usb_devices[cur[c]].info["devices"])], hidraw)

C6_UnknownNeverReadNorListed ==
    \A c \in Callers :
        /\ pc[c] = "usbread" => InKnownIdSet(usb_devices[cur[c]].info)
        /\ \A j \in 1..Len(results[c]) : InKnownIdSet(results[c][j])
        /\ \A j \in 1..Len(resp[c].body) :
              "vendorid" \in DOMAIN resp[c].body[j] => InKnownIdSet(resp[c].body[j])

\* an acquisition has listed devices while the registry holds a device
\* with an interface whose id is not in the known-id set
C6_Witness ==
    \E c \in Callers :
        /\ pc[c] = "done"
        /\ InAcquireAll(c)
        /\ Len(resp[c].body) >= 1
        /\ \E k \in 1..Len(usb_devices) :
              /\ ~InKnownIdSet(usb_devices[k].info)
              /\ Len(usb_devices[k].info["devices"]) > 0

\* C7: in acquireAll a recognized device without candidate interface is
\* given to no decoder and yields a result whose error is exactly
\* "no hid/tty devices available".
C7_NoInterfaceNoDecoder ==
    \A c \in Callers :
        (InAcquireAll(c) /\ ~InGetDevice(c)) =>
           /\ pc[c] = "usbread" => Len(usb_devices[cur[c]].info["devices"]) > 0
           /\ \A j \in 1..Len(results[c]) :
                 Len(results[c][j]["devices"]) = 0
                 => /\ "error" \in DOMAIN results[c][j]
                    /\ results[c][j]["error"] =
                          [fmt |-> "no hid/tty devices available", args |-> <<>>]
           /\ \A j \in 1..Len(usb_devices) :
                 LET info == usb_devices[SortedItems(usb_devices)[j]].info
                 IN  (j < idx[c] /\ InKnownIdSet(info) /\ Len(info["devices"]) = 0)
                     => \E r \in 1..Len(results[c]) :
                           /\ results[c][r]["busnum"] = info["busnum"]
                           /\ results[c][r]["devnum"] = info["devnum"]
                           /\ "error" \in DOMAIN results[c][r]

C7_Witness ==
    \E c \in Callers :
        /\ pc[c] = "done"
        /\ InAcquireAll(c)
        /\ \E r \in 1..Len(results[c]) :
              /\ Len(results[c][r]["devices"]) = 0
              /\ results[c][r]["error"] = NoDevicesError

\* all the attempts of the firmware query got between 1 and 8 bytes
Exhausted(beh) ==
    /\ beh.pre >= FirmwareRetries
    /\ Len(beh.partial) >= 1
    /\ Len(beh.partial) <= 8

\* C8: when all 10 attempts of the firmware query get fewer than 9 bytes
\* (and at least one), the read of the device fails: it raises, or its
\* Reading carries an error; in no case does a Reading with sensor fields
\* come out of the partial firmware response.
C8_ExhaustionYieldsNoReading ==
    (hidOut # Pending /\ Exhausted(hidIn))
    => \/ hidOut.raised # None
       \/ /\ "error" \in DOMAIN hidOut.info
          /\ (DOMAIN hidOut.info) \cap SensorKeys = {}

\* the ten attempts each got "TEMPerX_" and the data query a full buffer
C8_Witness ==
    /\ hidOut # Pending
    /\ Exhausted(hidIn)
    /\ hidIn.data = DataInner
    /\ hidIn.partial = Take(FwX33, 8)

\* C9: a HEAD request never reaches device I/O; HEAD / answers 200 and
\* HEAD /<vendorid>/<productid> answers 200 when a recognized registry
\* device has the id and 404 otherwise.
C9_HeadDoesNoDeviceIO ==
    \A t \in Threads :
        req[t].mode = "HEAD" =>
           /\ ~InDeviceIO(t)
           /\ pc[t] = "done" =>
                 /\ resp[t].exc = None
                 /\ ~fnf[t]
                 /\ req[t].path = PathRoot => resp[t] = Answer(200, "list", <<>>)
                 /\ InGetDevice(t) =>
                       \/ /\ resp[t] = Answer(200, "dict", <<EmptyDict>>)
                          /\ \E k \in 1..Len(usb_devices) :
                                /\ InKnownIdSet(usb_devices[k].info)
                                /\ usb_devices[k].info["vendorid"] =
                                      ParseInt(PathMatch(req[t].path)[1], 10)
                                /\ usb_devices[k].info["productid"] =
                                      ParseInt(PathMatch(req[t].path)[2], 10)
                       \/ resp[t] = NoSuchDevice

\* HEAD for a recognized device that a GET would have read
C9_Witness ==
    \E t \in Threads :
        /\ pc[t] = "done"
        /\ req[t].mode = "HEAD"
        /\ InGetDevice(t)
        /\ resp[t].code = 200
        /\ \E k \in 1..Len(usb_devices) :
              /\ usb_devices[k].info["vendorid"] = ParseInt(PathMatch(req[t].path)[1], 10)
              /\ Len(usb_devices[k].info["devices"]) > 0
              /\ usb_devices[k].path \in plugged

\* C10: every request is answered by the routing table: /<digits>/<digits>
\* with 200 when a recognized registry device has that id and with 404
\* "no such device" otherwise, / and /devices with 200, any other path
\* with 404 "unrecognized path".
C10_RoutingTable ==
    \A t \in Threads :
        pc[t] = "done" =>
           /\ resp[t].exc = None
           /\ InGetDevice(t) =>
                 \/ resp[t].code = 200
                 \/ resp[t] = NoSuchDevice /\ ~fnf[t]
           /\ req[t].path \in {PathRoot, PathDevices} => resp[t].code = 200
           /\ (~InGetDevice(t) /\ req[t].path \notin {PathRoot, PathDevices})
              => resp[t] = Answer(404, "dict", ErrorBody("unrecognized path"))

\* the bus paths of the registry's entries
RegistryPaths(reg) == {reg[k].path : k \in 1..Len(reg)}

\* C11: after any registry refresh the registry is exactly the result of
\* the scan made by that refresh: it holds one entry per USB device on the
\* bus, each as the scanner builds it, none for a device that has left the
\* bus, and nothing carried over from the previous registry.
C11_RefreshIsWholesale ==
    [][last_reset' # last_reset =>
         /\ usb_devices' = get_usb_devices(plugged)
         /\ RegistryPaths(usb_devices') = plugged
         /\ \A k \in 1..Len(usb_devices') :
               /\ usb_devices'[k].info = _get_usb_device(usb_devices'[k].path)
               /\ "error" \notin DOMAIN usb_devices'[k].info
               /\ \A j \in 1..Len(usb_devices') :
                     usb_devices'[j].path = usb_devices'[k].path => j = k]_vars

\* the service started with the HID sensor in its registry; a refresh has
\* run since and the registry no longer holds the sensor
C11_Witness ==
    /\ pc[0] = "serving"
    /\ last_reset > 0
    /\ "1-1" \notin RegistryPaths(usb_devices)
    /\ "1-1" \notin plugged

\* C12: between two refreshes no operation changes a registry entry: each
\* entry holds exactly the fields and values the scanner gave it.
C12_EntriesAsScanned ==
    \A k \in 1..Len(usb_devices) :
        usb_devices[k].info = _get_usb_device(usb_devices[k].path)

\* the keys the service may expose for a device
ExposedKeys ==
    {"vendorid", "productid", "manufacturer", "product",
     "internal temperature", "internal humidity",
     "external temperature", "external humidity", "url"}

\* <scheme>://<host>:<port>/<vendorid>/<productid> for the object o
StableUrl(o) ==
    [fmt |-> "%s://%s:%s/%s/%s",
     args |-> << IF "certfile" \in DOMAIN server_config THEN "https" ELSE "http",
                 server_config["hostname"],
                 IF "certfile" \in DOMAIN server_config THEN 8443 ELSE 80,
                 o["vendorid"], o["productid"] >>]

\* o exposes the reading r: no key outside ExposedKeys, the url, and the
\* identity and sensor keys of r, each with r's value
Exposes(o, r) ==
    /\ DOMAIN o \subseteq ExposedKeys
    /\ "url" \in DOMAIN o
    /\ DOMAIN o \ {"url"} = (DOMAIN r) \cap (ExposedKeys \ {"url"})
    /\ \A k \in DOMAIN o \ {"url"} : o[k] = r[k]
    /\ o["url"] = StableUrl(o)

\* what C13 says of a 200 answer to a GET: rq the request, rs the response,
\* res the readings the answer is made from, reg the registry
ExposureOk(rq, rs, res, reg) ==
    /\ \A j \in 1..Len(rs.body) :
          /\ DOMAIN rs.body[j] \subseteq ExposedKeys
          /\ rs.body[j]["url"] = StableUrl(rs.body[j])
    /\ rq.path # PathDevices =>
          /\ Len(rs.body) = Len(res)
          /\ \A j \in 1..Len(res) : Exposes(rs.body[j], res[j])
    /\ rq.path = PathDevices =>
          \A j \in 1..Len(rs.body) :
             \E k \in 1..Len(reg) : Exposes(rs.body[j], reg[k].info)

\* C13: every object the service returns for a device has no key outside
\* ExposedKeys (no bus or device number), has each sensor key exactly when
\* the reading has it, and has the url <scheme>://<host>:<port>/<vendorid>/
\* <productid>: in GET /devices for the registry entries, in GET / for the
\* results of acquireAll, in a single-device GET for the device's reading.
C13_OnlyExposedKeys ==
    \A t \in Threads :
        (pc[t] = "done" /\ resp[t].code = 200 /\ req[t].mode = "GET")
        => /\ ExposureOk(req[t], resp[t], results[t], usb_devices)
           /\ InGetDevice(t) =>
                 /\ Len(resp[t].body) = 1
                 /\ \E k \in 1..Len(usb_devices) :
                       \A key \in {"vendorid", "productid", "manufacturer", "product"} :
                          resp[t].body[1][key] = usb_devices[k].info[key]

\* GET / has answered with an object that carries some sensor keys and not
\* others, for a result that holds keys the service does not expose
C13_Witness ==
    \E t \in Threads :
        /\ pc[t] = "done"
        /\ req[t].mode = "GET"
        /\ req[t].path = PathRoot
        /\ resp[t].code = 200
        /\ "certfile" \in DOMAIN server_config
        /\ \E j \in 1..Len(resp[t].body) :
              /\ "internal temperature" \in DOMAIN resp[t].body[j]
              /\ "external humidity" \notin DOMAIN resp[t].body[j]
              /\ {"busnum", "devnum", "hex_data", "firmware"} \subseteq DOMAIN results[t][j]

\* the fields <<name, offset, divisor>> the HID decoder reads for the
\* firmware id of a Reading
FieldsOf(id) ==
    IF id = TEMPerF1_4 THEN {<<"internal temperature", 2, 256>>}
    ELSE IF Take(id, 14) = TEMPerGold_V3 THEN {<<"internal temperature", 2, 100>>}
    ELSE IF id \in {TEMPerX_V3_1, TEMPerX_V3_3}
    THEN {<<"internal temperature", 2, 100>>, <<"internal humidity", 4, 100>>,
          <<"external temperature", 10, 100>>, <<"external humidity", 12, 100>>}
    ELSE {}

\* what C14 says of one field of the Reading info decoded from buf
FieldAsClaimed(info, buf, name, offset, divisor) ==
    IF Len(buf) < offset + 2
    THEN name \notin DOMAIN info
    ELSE IF buf[offset + 1] = 78 /\ buf[offset + 2] = 32
    THEN name \notin DOMAIN info
    ELSE /\ name \in DOMAIN info
         /\ \E v \in {buf[offset + 1] * 256 + buf[offset + 2],
                       buf[offset + 1] * 256 + buf[offset + 2] - 65536} :
               /\ v \in -32768..32767
               /\ info[name] * divisor = v * UnitsPerDegree

\* C14: for every data buffer and every field offset the HID decoder uses:
\* the field is absent when the two bytes at the offset are 0x4E,0x20;
\* absent, with no error raised, when the buffer is too short to hold two
\* bytes there; and otherwise present and equal to the signed 16-bit
\* big-endian integer at the offset divided by the divisor.
C14_FieldDecode ==
    (hidOut # Pending /\ hidOut.raised = None /\ "error" \notin DOMAIN hidOut.info)
    => /\ FieldsOf(hidOut.info["firmware"]) # {}
       /\ \A f \in FieldsOf(hidOut.info["firmware"]) :
             FieldAsClaimed(hidOut.info, hidIn.data, f[1], f[2], f[3])

\* a TEMPerX buffer cut inside the external temperature, whose first byte
\* there is 0x4E: the internal fields are decoded, the external ones absent
C14_Witness ==
    /\ hidOut # Pending
    /\ hidOut.raised = None
    /\ hidIn.data = DataCut11
    /\ hidOut.info["firmware"] = TEMPerX_V3_3
    /\ "internal humidity" \in DOMAIN hidOut.info
    /\ "external temperature" \notin DOMAIN hidOut.info

\* the fields <<name, offset, divisor>> C15 gives the family of a trimmed
\* firmware id
FamilyFields(id) ==
    IF StartsWith(id, TEMPerF1_4) THEN {<<"internal temperature", 2, 256>>}
    ELSE IF StartsWith(id, TEMPerGold_V3) THEN {<<"internal temperature", 2, 100>>}
    ELSE IF StartsWith(id, TEMPerX_V3_1) \/ StartsWith(id, TEMPerX_V3_3)
    THEN {<<"internal temperature", 2, 100>>, <<"internal humidity", 4, 100>>,
          <<"external temperature", 10, 100>>, <<"external humidity", 12, 100>>}
    ELSE {}

\* the firmware query is answered in full at the first attempt
AnsweredAtOnce(beh) == beh.pre = 0 /\ Len(beh.full) > 8

\* C15: the fields of a HID Reading are decided by the trimmed firmware id
\* and the data bytes alone: TEMPerF1.4 decodes offset 2 only, divisor 256;
\* TEMPerGold_V3.x offset 2 only, divisor 100 (2500 gives 25.00);
\* TEMPerX_V3.1 and TEMPerX_V3.3 offsets 2, 4, 10, 12, divisor 100, into
\* internal temperature, internal humidity, external temperature and
\* external humidity.
C15_FamilyDecode ==
    (hidOut # Pending /\ AnsweredAtOnce(hidIn) /\ FamilyFields(Strip(hidIn.full)) # {})
    => LET fields == FamilyFields(Strip(hidIn.full))
       IN  /\ hidOut.raised = None
           /\ "error" \notin DOMAIN hidOut.info
           /\ (DOMAIN hidOut.info) \cap SensorKeys \subseteq {f[1] : f \in fields}
           /\ \A f \in fields : FieldAsClaimed(hidOut.info, hidIn.data, f[1], f[2], f[3])
           /\ (StartsWith(hidIn.full, TEMPerGold_V3) /\ hidIn.data = DataInner)
              => hidOut.info["internal temperature"] = 25 * UnitsPerDegree

\* TEMPerF1.4 has decoded 2500 at offset 2 of a buffer that also holds a
\* value at offset 4
C15_Witness ==
    /\ hidOut # Pending
    /\ AnsweredAtOnce(hidIn)
    /\ hidIn.full = FwF14
    /\ hidIn.data = DataInner
    /\ "internal temperature" \in DOMAIN hidOut.info

\* C16: when the trimmed firmware id matches none of the known prefixes,
\* the HID Reading has the error "unknown firmware <id>: <hex of data
\* buffer>" (the case of the first letter left aside) and none of the four
\* temperature/humidity fields, whatever the data buffer holds.
C16_UnknownFirmwareError ==
    (hidOut # Pending /\ AnsweredAtOnce(hidIn) /\ FamilyFields(Strip(hidIn.full)) = {})
    => /\ hidOut.raised = None
       /\ (DOMAIN hidOut.info) \cap SensorKeys = {}
       /\ "error" \in DOMAIN hidOut.info
       /\ hidOut.info["error"].fmt \in {"unknown firmware %s: %s", "Unknown firmware %s: %s"}
       /\ hidOut.info["error"].args = <<Strip(hidIn.full), B2AHex(hidIn.data)>>

\* the pairs C17 is tried on: the built-in pairs, the keyboard's pair,
\* pairs that mix the halves of built-in pairs, and 0000:0000
TestPairs ==
    BuiltinIds \cup {<<1133, 49948>>, <<6790, 29697>>, <<3141, 8455>>, <<16701, 21795>>,
                     <<0, 0>>}

\* the <<vendorid, productid>> pairs of a sequence of infos
PairsOf(infos) ==
    {<<infos[j]["vendorid"], infos[j]["productid"]>> : j \in 1..Len(infos)}

\* C17: with a forced pair set, a pair is known if and only if it is the
\* forced pair (a built-in pair is not, unless it is the forced pair);
\* with none, if and only if it is one of the four built-in pairs.  Hence
\* a completed acquireAll lists exactly the registry devices so known.
C17_KnownIffForcedOrBuiltin ==
    /\ \A id \in TestPairs :
          _is_known_id(forced_vendor_id, forced_product_id, id[1], id[2])
          <=> IF forced_vendor_id # NoId /\ forced_product_id # NoId
              THEN id = <<forced_vendor_id, forced_product_id>>
              ELSE id \in BuiltinIds
    /\ (pc[0] = "done" /\ InAcquireAll(0) /\ resp[0].exc = None)
       => PairsOf(results[0]) =
             {id \in PairsOf([k \in 1..Len(usb_devices) |-> usb_devices[k].info]) :
                 IF forced_vendor_id # NoId /\ forced_product_id # NoId
                 THEN id = <<forced_vendor_id, forced_product_id>>
                 ELSE id \in BuiltinIds}

\* a run with --force 046d:c31c has read the keyboard and nothing else,
\* though the registry holds a device with a built-in pair
C17_Witness ==
    /\ pc[0] = "done"
    /\ forced_vendor_id = 1133
    /\ forced_product_id = 49948
    /\ PairsOf(results[0]) = {<<1133, 49948>>}
    /\ \E k \in 1..Len(usb_devices) :
          <<usb_devices[k].info["vendorid"], usb_devices[k].info["productid"]>> \in BuiltinIds

\* busNumber*1000 + deviceNumber of a result
ReportKey(r) == r["busnum"] * 1000 + r["devnum"]

\* C18: the results of acquireAll are in ascending order of
\* busNumber*1000 + deviceNumber at every point of the loop, and the list
\* acquireAll returns holds one result per recognized registry device: it
\* is decided by the registry's entries, not by their insertion order.
C18_ResultsAscending ==
    \A c \in Callers :
        (InAcquireAll(c) /\ ~InGetDevice(c)) =>
           /\ \A i, j \in 1..Len(results[c]) :
                 i < j => ReportKey(results[c][i]) < ReportKey(results[c][j])
           /\ (pc[c] = "done" /\ resp[c].exc = None) =>
                 /\ Len(results[c]) =
                       Cardinality({k \in 1..Len(usb_devices) :
                                       InKnownIdSet(usb_devices[k].info)})
                 /\ {ReportKey(results[c][j]) : j \in 1..Len(results[c])} =
                       {ReportKey(usb_devices[k].info) :
                          k \in {n \in 1..Len(usb_devices) :
                                    InKnownIdSet(usb_devices[n].info)}}

\* acquireAll has returned three results, and the registry holds the
\* first two of them in the opposite order
C18_Witness ==
    \E c \in Callers :
        /\ pc[c] = "done"
        /\ InAcquireAll(c)
        /\ Len(results[c]) = 3
        /\ \E m, n \in 1..Len(usb_devices) :
              /\ m < n
              /\ ReportKey(usb_devices[m].info) = ReportKey(results[c][2])
              /\ ReportKey(usb_devices[n].info) = ReportKey(results[c][1])

\* the attempts, among the ten the loop can make, that the device beh
\* answers with more than 8 bytes, and those it answers with none
LongAttempts(beh) == {i \in 1..10 : Len(FirmwareResponse(beh, i)) > 8}
EmptyAttempts(beh) == {i \in 1..10 : Len(FirmwareResponse(beh, i)) = 0}
FirstOf(S) == CHOOSE i \in S : \A j \in S : i <= j

\* C19: the firmware query writes its frame at most 10 times; when an
\* attempt gets more than 8 bytes (no attempt before it having got none),
\* the first such attempt is the last frame written and the firmware
\* returned is exactly the bytes of that attempt, nothing of the earlier,
\* partial attempts.
C19_FirmwareQueryStops ==
    hidOut # Pending =>
       /\ hidOut.writes \in 1..10
       /\ LongAttempts(hidIn) # {} => hidOut.writes <= FirstOf(LongAttempts(hidIn))
       /\ (/\ LongAttempts(hidIn) # {}
           /\ \A e \in EmptyAttempts(hidIn) : e > FirstOf(LongAttempts(hidIn)))
          => /\ hidOut.raised = None
             /\ hidOut.writes = FirstOf(LongAttempts(hidIn))
             /\ hidOut.info["hex_firmware"] =
                   B2AHex(FirmwareResponse(hidIn, FirstOf(LongAttempts(hidIn))))

\* three attempts got "TEMPerX_", the fourth the whole id
C19_Witness ==
    /\ hidOut # Pending
    /\ hidIn.pre = 3
    /\ hidIn.partial = Take(FwX33, 8)
    /\ hidIn.full = FwX33
    /\ hidOut.writes = 4

\* the candidate interfaces of a registry entry, and the dict the claim's
\* merge gives: the identity, with every key of the decoder's dict on top
CandidateNames(info) == {info["devices"][k] : k \in 1..Len(info["devices"])}
MergedAsClaimed(info, out, r) ==
    /\ DOMAIN r = (DOMAIN info) \cup (DOMAIN out)
    /\ \A k \in DOMAIN out : r[k] = out[k]
    /\ \A k \in (DOMAIN info) \ (DOMAIN out) : r[k] = info[k]
ReadFailed(c) == pc[c] = "done" /\ resp[c].exc # None

\* C20 (stated of the call made last, until the loop picks the next entry):
\* a USBRead.read call of Temper.read is for a recognized device with
\* candidate interfaces; the interface it is given is the lexicographically
\* greatest candidate; exactly one decoder runs, the HID decoder iff the
\* name starts with "hidraw", the serial decoder iff it starts with "tty";
\* and when the decoder returns, the list holds the identity overlaid with
\* the decoder's dict.
C20_LastInterfaceOneDecoder ==
    \A c \in Callers :
       (opened[c] # NoRead /\ ~InGetDevice(c) /\ pc[c] # "usbread") =>
          LET info == usb_devices[cur[c]].info
              o == opened[c]
          IN  /\ IsKnown(info)
              /\ o.device \in CandidateNames(info)
              /\ \A n \in CandidateNames(info) \ {o.device} : LexLess(n, o.device)
              /\ o.decoder \in {"hid", "serial"}
              /\ o.decoder = "hid" <=> StartsWith(o.device, hidraw)
              /\ o.decoder = "serial" <=> StartsWith(o.device, tty)
              /\ ~ReadFailed(c) =>
                    \E i \in 1..Len(results[c]) :
                       MergedAsClaimed(info, o.out, results[c][i])

\* GET /: the TEMPerX (hidraw0 and hidraw1) was read through hidraw1
C20_Witness ==
    \E t \in Threads :
       /\ req[t].path = PathRoot
       /\ opened[t].device = hidraw1
       /\ opened[t].decoder = "hid"
       /\ Cardinality(CandidateNames(usb_devices[cur[t]].info)) = 2
       /\ \E i \in 1..Len(results[t]) : "hex_firmware" \in DOMAIN results[t][i]

\* the code of a request that reads or writes the registry: the handlers
\* entered from get_path (pc "wait" is the thread at the with statement),
\* Temper.read and the USBRead.read call inside it
InRegistryCode(t) == pc[t] \in {"wait", "read", "usbread"}
HoldsLock(t) == lock = t \/ (lock = 0 /\ pc[t] = "wait")

\* C21: while the service runs, a step that changes the registry or its
\* last-refresh timestamp, and a step of a request's registry-accessing
\* code, is taken by a request that holds the lock (or takes it in that
\* step); no two requests are inside Temper.read / USBRead.read together.
C21_RegistryUnderLock ==
    [][pc[0] = "serving" =>
         /\ (usb_devices' # usb_devices \/ last_reset' # last_reset) =>
               \E t \in Threads :
                  /\ pc'[t] # pc[t] \/ idx'[t] # idx[t]
                  /\ InRegistryCode(t)
                  /\ HoldsLock(t)
         /\ \A t \in Threads :
               ((pc'[t] # pc[t] \/ idx'[t] # idx[t]) /\ InRegistryCode(t)) => HoldsLock(t)
         /\ \A t, u \in Threads :
               (t # u /\ pc'[t] \in {"read", "usbread"}) => pc'[u] \notin {"read", "usbread"}
      ]_vars

\* a request that refreshed the registry is in Temper.read, holding the
\* lock, while another request waits
C21_Witness ==
    \E t, u \in Threads :
       /\ t # u
       /\ lock = t
       /\ pc[t] = "read"
       /\ age[t].found # age[t].used
       /\ pc[u] = "wait"

\* the handling of the request has ended: the response, or the exception
\* that escaped the handler, is on its way out
HandlingEnded(t) == pc[t] \in {"done", "idle"}
Failed(t) == pc[t] = "done" /\ resp[t].exc # None

NamedEntry(t) ==
    FirstMatch(usb_devices, forced_vendor_id, forced_product_id,
               ParseInt(PathMatch(req[t].path)[1], 10),
               ParseInt(PathMatch(req[t].path)[2], 10), 1)

\* C23: a single-device GET that names a recognized registry device with no
\* candidate interface runs no decoder and ends with a status code and a
\* JSON body, never with an exception that escapes the handler.
C23_NoInterfaceWellFormed ==
    \A t \in Threads :
       (/\ pc[t] = "done"
        /\ req[t].mode = "GET"
        /\ InGetDevice(t)
        /\ NamedEntry(t) # 0
        /\ Len(usb_devices[NamedEntry(t)].info["devices"]) = 0)
       => /\ opened[t] = NoRead
          /\ resp[t].exc = None
          /\ resp[t].code \in {200, 404}
          /\ resp[t].shape = "dict"

====
